---- MODULE Spec2Model ----
(***************************************************************************)
(* size-scanner: the threaded tree builder (core.build_tree), the          *)
(* single-threaded walker (core._build_tree_single), the spinner           *)
(* (core._print_spinner), the top level (size_scanner.main, _print_tree)   *)
(* and helpers.parse_size.                                                 *)
(*                                                                         *)
(* A filesystem entry is a record [kind, size, entries]:                   *)
(*   "file"    a non-directory whose stat succeeds, st_size = size         *)
(*   "nostat"  an entry whose stat raises OSError                          *)
(*   "dir"     a directory, entries are listed in scandir order            *)
(*   "noscan"  a directory whose os.scandir raises OSError at once         *)
(*   "midscan" a directory whose listing raises OSError after it has       *)
(*             yielded its first entry                                     *)
(*   "crash"   a directory on which the walker raises an exception that is *)
(*             not an OSError                                              *)
(*   "symlink" a symbolic link, size is its own lstat size; entries holds  *)
(*             the entry it points to, or nothing when it dangles          *)
(* The entry at index i of the directory with path p has path p \o <<i>>;  *)
(* the scan root has path <<>>.                                            *)
(*                                                                         *)
(* Specifications:                                                         *)
(*   Spec        build_tree and main on the filesystems without links      *)
(*   SpecLinks   the same on the filesystems with symbolic links           *)
(*   FairSpec    the same with the threads scheduled fairly                *)
(*   SpecPool    the same with the pool size left to the default           *)
(*   SpecSpinner the same with the steps of core._print_spinner            *)
(*   SpecParse   helpers.parse_size on the threshold texts                 *)
(***************************************************************************)
EXTENDS Integers, Sequences, FiniteSets, Bags, TLC

\* ------------------------------------------------------------------ bounds
MaxEntries == 3     \* entries in the filesystem below the scan root
MaxFileSize == 2    \* st_size of a file is in 1..MaxFileSize
MaxWorkers == 2     \* max_workers is in 1..MaxWorkers
MaxThreshold == 2   \* the display threshold is in 0..MaxThreshold
MaxNumeralLen == 2  \* small numerals given to parse_size have 1..MaxNumeralLen digits
MaxCores == 17      \* os.cpu_count() is unknown or in 1..MaxCores
MaxBeyond == 3      \* large numerals given to parse_size are 2^53 - 1 + (0..MaxBeyond)

VARIABLES fs, max_workers, cpu_count, pc, nxt, futures, yielded, children,
          total_size, total_files, results, warnings, printed, args,
          interrupted, executor, spinner

vars == <<fs, max_workers, cpu_count, pc, nxt, futures, yielded, children,
          total_size, total_files, results, warnings, printed, args,
          interrupted, executor, spinner>>

\* ------------------------------------------------------- filesystem inputs
File(s) == [kind |-> "file", size |-> s, entries |-> <<>>]

Dir(k, es) == [kind |-> k, size |-> 0, entries |-> es]

\* a symbolic link to the entry t; its own lstat size is 1
Link(t) == [kind |-> "symlink", size |-> 1, entries |-> <<t>>]

DanglingLink == [kind |-> "symlink", size |-> 1, entries |-> <<>>]

\* the entries without entries below them; lk: symbolic links are allowed
LeafEntries(lk) ==
  {File(s) : s \in 1..MaxFileSize}
    \cup {Dir("nostat", <<>>), Dir("dir", <<>>), Dir("noscan", <<>>), Dir("crash", <<>>)}
    \cup (IF lk THEN {DanglingLink} ELSE {})

RECURSIVE ForestsOf(_, _), TreesOf(_, _)
\* the sequences of entries that hold exactly n entries in all
ForestsOf(n, lk) ==
  IF n = 0 THEN {<<>>}
  ELSE UNION {{<<t>> \o rest : t \in TreesOf(k, lk), rest \in ForestsOf(n - k, lk)} :
                k \in 1..n}

\* the entries whose subtree holds exactly n entries
TreesOf(n, lk) ==
  IF n = 1 THEN LeafEntries(lk)
  ELSE {Dir(k, es) : k \in {"dir", "midscan", "nostat"}, es \in ForestsOf(n - 1, lk)}
         \cup (IF lk THEN {Link(t) : t \in TreesOf(n - 1, lk)} ELSE {})

\* the scan roots that are no links, with at most m entries below them
PlainRoots(m, lk) ==
  {File(s) : s \in 1..MaxFileSize} \cup {Dir("nostat", <<>>), Dir("noscan", <<>>)}
    \cup UNION {{Dir("dir", es) : es \in ForestsOf(n, lk)} : n \in 0..m}
    \cup UNION {{Dir("midscan", es) : es \in ForestsOf(n, lk)} : n \in 1..m}

\* the filesystems without symbolic links
Roots == PlainRoots(MaxEntries, FALSE)

\* the filesystems with symbolic links, the scan root included
LinkRoots ==
  PlainRoots(MaxEntries, TRUE) \cup {DanglingLink}
    \cup {Link(r) : r \in PlainRoots(MaxEntries - 1, TRUE)}

IsDirMode(e) == e.kind \in {"dir", "noscan", "midscan", "crash"}

\* the number of entries os.scandir yields before it raises, or -1
FailsAfter(e) ==
  IF e.kind = "noscan" THEN 0 ELSE IF e.kind = "midscan" THEN 1 ELSE -1

\* a stat that follows symbolic links: the entry the path resolves to; the
\* stat of a dangling link raises OSError
RECURSIVE Resolved(_)
Resolved(e) ==
  IF e.kind # "symlink" THEN e
  ELSE IF e.entries = <<>> THEN Dir("nostat", <<>>)
  ELSE Resolved(e.entries[1])

\* an entry.stat that follows symbolic links
EntryStatFollowing(e) == Resolved(e)

\* entry.stat(follow_symlinks=False): the entry's own lstat
EntryStat(e) == e

\* ------------------------------------------------------------------- Node
Node(p, s, c, f, ch) ==
  [path |-> p, size |-> s, file_count |-> c, is_file |-> f, children |-> ch]

\* children[child.path.name] = child on an ordered dict of nodes
RECURSIVE DictSet(_, _)
DictSet(ch, n) ==
  IF ch = <<>> THEN <<n>>
  ELSE IF Head(ch).path = n.path THEN <<n>> \o Tail(ch)
  ELSE <<Head(ch)>> \o DictSet(Tail(ch), n)

Warn(m, p) == [msg |-> m, path |-> p]

\* Node(path=..., size=st.st_size, file_count=1, is_file=True)
FileNode(p, e) == Node(p, e.size, 1, TRUE, <<>>)

\* a fold that counts children instead of files
FoldCountsChildren(ch, ts, tf, child) ==
  [children |-> DictSet(ch, child), total_size |-> ts + child.size,
   total_files |-> tf + 1]

\* children[child.path.name] = child; total_size += ...; total_files += ...
Fold(ch, ts, tf, child) ==
  [children |-> DictSet(ch, child), total_size |-> ts + child.size,
   total_files |-> tf + child.file_count]

\* the stat warning disabled like the other commented-out warnings
NoEntryStatWarning(p) == EmptyBag

\* helpers.warning(f"Can't stat this entry: {entry.path}")
EntryStatWarning(p) == SetToBag({Warn("entry", p)})

NoNode == Node(<<>>, 0, 0, FALSE, <<>>)

Returned(n, w) == [tag |-> "node", node |-> n, warns |-> w]

ReturnedNone(w) == [tag |-> "none", node |-> NoNode, warns |-> w]

Raised(w) == [tag |-> "exc", node |-> NoNode, warns |-> w]

\* a walker that returns an empty directory node for an unreadable directory
ScanErrorEmptyNode(p, w) == Returned(Node(p, 0, 0, FALSE, <<>>), w)

\* except OSError around os.scandir(path) in the walker: return None
ScanError(p, w) == ReturnedNone(w)

\* ------------------------------------------- core._build_tree_single
RECURSIVE build_tree_single(_, _), WalkLoop(_, _, _, _, _, _, _)
\* the for loop over os.scandir(path): i is the next entry, ch/ts/tf are
\* the locals children/total_size/total_files, w the warnings printed so far
WalkLoop(e, p, i, ch, ts, tf, w) ==
  IF FailsAfter(e) = i - 1 THEN ScanError(p, w)
  ELSE IF i > Len(e.entries) THEN Returned(Node(p, ts, tf, FALSE, ch), w)
  ELSE LET c == EntryStat(e.entries[i])
           cp == p \o <<i>>
       IN IF c.kind = "nostat"
          THEN WalkLoop(e, p, i + 1, ch, ts, tf, w (+) EntryStatWarning(cp))
          ELSE LET r == build_tree_single(c, cp)
               IN IF r.tag = "exc" THEN Raised(w (+) r.warns)
                  ELSE IF r.tag = "none"
                       THEN WalkLoop(e, p, i + 1, ch, ts, tf, w (+) r.warns)
                       ELSE LET a == Fold(ch, ts, tf, r.node)
                            IN WalkLoop(e, p, i + 1, a.children, a.total_size,
                                        a.total_files, w (+) r.warns)

build_tree_single(e, p) ==
  IF e.kind = "crash" THEN Raised(EmptyBag)
  ELSE IF ~IsDirMode(e) THEN Returned(FileNode(p, e), EmptyBag)
  ELSE WalkLoop(e, p, 1, <<>>, 0, 0, EmptyBag)

\* --------------------------------------------------------------- Init
\* max_workers: int | None = None, and an os.cpu_count() that does not know
None == 0

\* _SPINNER = cycle([...]) has ten frames
Frames == 10

\* the threads: 0 is the main thread, i the thread that runs unit i
Threads == 0..MaxEntries

\* _SPINNER_LOCK is free, _SPINNER is at its first frame, no thread is in
\* _print_spinner and none has called it
SpinnerAtRest ==
  [owner |-> -1, frame |-> 0, shown |-> <<>>,
   at |-> [t \in Threads |-> "out"], done |-> [t \in Threads |-> 0]]

\* the state in which build_tree is entered, its arguments apart
Idle ==
  /\ pc = "main"
  /\ nxt = 1
  /\ futures = <<>>
  /\ yielded = {}
  /\ children = <<>>
  /\ total_size = 0
  /\ total_files = 0
  /\ results = NoNode
  /\ warnings = EmptyBag
  /\ printed = <<>>
  /\ args = [threshold |-> 0, reverse |-> FALSE]
  /\ interrupted = FALSE
  /\ executor = "none"
  /\ spinner = SpinnerAtRest

\* the caller names the pool size
Start == max_workers \in 1..MaxWorkers /\ cpu_count = None /\ Idle

Init == fs \in Roots /\ Start

InitLinks == fs \in LinkRoots /\ Start

\* ------------------------------------------------------ core.build_tree
Root == <<>>

\* root.stat() follows symbolic links, and so does os.scandir(root)
RootStat == Resolved(fs)

\* the entry of the filesystem at path p
RECURSIVE EntryIn(_, _)
EntryIn(e, p) == IF p = <<>> THEN e ELSE EntryIn(e.entries[Head(p)], Tail(p))

EntryAt(p) == EntryIn(RootStat, p)

\* the Future of executor.submit(_build_tree_single, entry_path, entry_st)
Future(p) == [path |-> p, state |-> "queued", out |-> ReturnedNone(EmptyBag)]

AllDone == \A i \in 1..Len(futures) : futures[i].state = "done"

\* root.stat() raises OSError
StatRootFails ==
  /\ pc = "main"
  /\ RootStat.kind = "nostat"
  /\ warnings' = warnings (+) SetToBag({Warn("root", Root)})
  /\ results' = Node(Root, 0, 0, FALSE, <<>>)
  /\ pc' = "built"
  /\ UNCHANGED <<fs, max_workers, cpu_count, nxt, futures, yielded, children,
                 total_size, total_files, printed, args, interrupted, executor,
                 spinner>>

\* a file check placed after the pool is created
RootIsFileViaPool ==
  /\ pc = "main"
  /\ RootStat.kind = "file"
  /\ results' = FileNode(Root, RootStat)
  /\ executor' = "shutdown"
  /\ pc' = "built"
  /\ UNCHANGED <<fs, max_workers, cpu_count, nxt, futures, yielded, children,
                 total_size, total_files, warnings, printed, args, interrupted,
                 spinner>>

\* the root is not a directory
RootIsFile ==
  /\ pc = "main"
  /\ RootStat.kind = "file"
  /\ results' = FileNode(Root, RootStat)
  /\ pc' = "built"
  /\ UNCHANGED <<fs, max_workers, cpu_count, nxt, futures, yielded, children,
                 total_size, total_files, warnings, printed, args, interrupted,
                 executor, spinner>>

Min(a, b) == IF a <= b THEN a ELSE b

\* default_workers = min(32, (os.cpu_count() or 4) * 2)
default_workers == Min(32, (IF cpu_count = None THEN 4 ELSE cpu_count) * 2)

\* the root is a directory: the pool size is settled, and
\* with ThreadPoolExecutor(max_workers=max_workers) as executor
OpenExecutor ==
  /\ pc = "main"
  /\ IsDirMode(RootStat)
  /\ max_workers' = IF max_workers = None THEN default_workers ELSE max_workers
  /\ executor' = "open"
  /\ pc' = "scan"
  /\ UNCHANGED <<fs, cpu_count, nxt, futures, yielded, children, total_size,
                 total_files, results, warnings, printed, args, interrupted,
                 spinner>>

\* a handler that returns what was counted before the listing failed
ScanFailsKeepsCounted ==
  /\ pc = "scan"
  /\ FailsAfter(RootStat) = nxt - 1
  /\ results' = Node(Root, total_size, total_files, FALSE, children)
  /\ pc' = "exit"
  /\ UNCHANGED <<fs, max_workers, cpu_count, nxt, futures, yielded, children,
                 total_size, total_files, warnings, printed, args, interrupted,
                 executor, spinner>>

\* os.scandir(root) raises OSError: return an empty node from inside the with
ScanFails ==
  /\ pc = "scan"
  /\ FailsAfter(RootStat) = nxt - 1
  /\ results' = Node(Root, 0, 0, FALSE, <<>>)
  /\ pc' = "exit"
  /\ UNCHANGED <<fs, max_workers, cpu_count, nxt, futures, yielded, children,
                 total_size, total_files, warnings, printed, args, interrupted,
                 executor, spinner>>

Scanning ==
  /\ pc = "scan"
  /\ FailsAfter(RootStat) # nxt - 1
  /\ nxt <= Len(RootStat.entries)

\* entry.stat(follow_symlinks=False) raises OSError
ScanStatFails ==
  /\ Scanning
  /\ EntryStat(RootStat.entries[nxt]).kind = "nostat"
  /\ warnings' = warnings (+) EntryStatWarning(<<nxt>>)
  /\ nxt' = nxt + 1
  /\ UNCHANGED <<fs, max_workers, cpu_count, pc, futures, yielded, children,
                 total_size, total_files, results, printed, args, interrupted,
                 executor, spinner>>

\* executor.submit(_build_tree_single, entry_path, entry_st)
ScanSubmit ==
  /\ Scanning
  /\ IsDirMode(EntryStat(RootStat.entries[nxt]))
  /\ futures' = Append(futures, Future(<<nxt>>))
  /\ nxt' = nxt + 1
  /\ UNCHANGED <<fs, max_workers, cpu_count, pc, yielded, children, total_size,
                 total_files, results, warnings, printed, args, interrupted,
                 executor, spinner>>

\* a non-directory at root level is handled in the main thread
ScanFile ==
  /\ Scanning
  /\ EntryStat(RootStat.entries[nxt]).kind # "nostat"
  /\ ~IsDirMode(EntryStat(RootStat.entries[nxt]))
  /\ LET a == Fold(children, total_size, total_files,
                   FileNode(<<nxt>>, EntryStat(RootStat.entries[nxt])))
     IN /\ children' = a.children
        /\ total_size' = a.total_size
        /\ total_files' = a.total_files
  /\ nxt' = nxt + 1
  /\ UNCHANGED <<fs, max_workers, cpu_count, pc, futures, yielded, results,
                 warnings, printed, args, interrupted, executor, spinner>>

\* the listing of the root is exhausted
ScanDone ==
  /\ pc = "scan"
  /\ FailsAfter(RootStat) # nxt - 1
  /\ nxt > Len(RootStat.entries)
  /\ pc' = "collect"
  /\ UNCHANGED <<fs, max_workers, cpu_count, nxt, futures, yielded, children,
                 total_size, total_files, results, warnings, printed, args,
                 interrupted, executor, spinner>>

\* a collector that does not wait for the future to be done
CompletedNoWait(i) ==
  /\ pc = "collect"
  /\ i \in 1..Len(futures)
  /\ i \notin yielded

\* as_completed(futures) yields future i
Completed(i) ==
  /\ pc = "collect"
  /\ i \in 1..Len(futures)
  /\ i \notin yielded
  /\ futures[i].state = "done"

\* a collector without the except clause: the exception leaves build_tree
\* and main, which catches KeyboardInterrupt only
CollectRaisedPropagates(i) ==
  /\ Completed(i)
  /\ futures[i].out.tag = "exc"
  /\ pc' = "crashed"
  /\ yielded' = yielded \cup {i}
  /\ UNCHANGED <<fs, max_workers, cpu_count, nxt, futures, children,
                 total_size, total_files, results, warnings, printed, args,
                 interrupted, executor, spinner>>

\* fut.result() raises the exception of the unit
CollectRaised(i) ==
  /\ Completed(i)
  /\ futures[i].out.tag = "exc"
  /\ warnings' = warnings (+) SetToBag({Warn("worker", Root)})
  /\ yielded' = yielded \cup {i}
  /\ UNCHANGED <<fs, max_workers, cpu_count, pc, nxt, futures, children,
                 total_size, total_files, results, printed, args, interrupted,
                 executor, spinner>>

\* a collector that warns when a unit returns None
CollectNoneWarns(i) ==
  /\ Completed(i)
  /\ futures[i].out.tag = "none"
  /\ warnings' = warnings (+) SetToBag({Warn("absent", futures[i].path)})
  /\ yielded' = yielded \cup {i}
  /\ UNCHANGED <<fs, max_workers, cpu_count, pc, nxt, futures, children,
                 total_size, total_files, results, printed, args, interrupted,
                 executor, spinner>>

\* result is None
CollectNone(i) ==
  /\ Completed(i)
  /\ futures[i].out.tag = "none"
  /\ yielded' = yielded \cup {i}
  /\ UNCHANGED <<fs, max_workers, cpu_count, pc, nxt, futures, children,
                 total_size, total_files, results, warnings, printed, args,
                 interrupted, executor, spinner>>

CollectNode(i) ==
  /\ Completed(i)
  /\ futures[i].out.tag = "node"
  /\ LET a == Fold(children, total_size, total_files, futures[i].out.node)
     IN /\ children' = a.children
        /\ total_size' = a.total_size
        /\ total_files' = a.total_files
  /\ yielded' = yielded \cup {i}
  /\ UNCHANGED <<fs, max_workers, cpu_count, pc, nxt, futures, results,
                 warnings, printed, args, interrupted, executor, spinner>>

\* as_completed is exhausted; the value of the return statement
CollectDone ==
  /\ pc = "collect"
  /\ yielded = 1..Len(futures)
  /\ results' = Node(Root, total_size, total_files, FALSE, children)
  /\ pc' = "exit"
  /\ UNCHANGED <<fs, max_workers, cpu_count, nxt, futures, yielded, children,
                 total_size, total_files, warnings, printed, args, interrupted,
                 executor, spinner>>

\* a pool that is shut down without waiting for its units
ExecutorExitNoWait ==
  /\ pc = "exit"
  /\ executor' = "shutdown"
  /\ pc' = "built"
  /\ UNCHANGED <<fs, max_workers, cpu_count, nxt, futures, yielded, children,
                 total_size, total_files, results, warnings, printed, args,
                 interrupted, spinner>>

\* ThreadPoolExecutor.__exit__: shutdown(wait=True), then build_tree returns
ExecutorExit ==
  /\ pc = "exit"
  /\ AllDone
  /\ executor' = "shutdown"
  /\ pc' = "built"
  /\ UNCHANGED <<fs, max_workers, cpu_count, nxt, futures, yielded, children,
                 total_size, total_files, results, warnings, printed, args,
                 interrupted, spinner>>

\* ------------------------------------------------ the pool's worker threads
Running == {i \in 1..Len(futures) : futures[i].state = "running"}

Queued == {i \in 1..Len(futures) : futures[i].state = "queued"}

\* a pool that starts a thread for every work item
StartUnitUnbounded ==
  /\ executor = "open"
  /\ Queued # {}
  /\ LET i == CHOOSE q \in Queued : \A r \in Queued : q <= r
     IN futures' = [futures EXCEPT ![i].state = "running"]
  /\ UNCHANGED <<fs, max_workers, cpu_count, pc, nxt, yielded, children,
                 total_size, total_files, results, warnings, printed, args,
                 interrupted, executor, spinner>>

\* a worker thread takes the oldest work item of the queue
StartUnit ==
  /\ executor = "open"
  /\ Queued # {}
  /\ Cardinality(Running) < max_workers
  /\ LET i == CHOOSE q \in Queued : \A r \in Queued : q <= r
     IN futures' = [futures EXCEPT ![i].state = "running"]
  /\ UNCHANGED <<fs, max_workers, cpu_count, pc, nxt, yielded, children,
                 total_size, total_files, results, warnings, printed, args,
                 interrupted, executor, spinner>>

\* a walker that gives its subdirectories to the pool and waits for them: it
\* ends only when a worker is free to run them
FinishUnitAwaitingPool(i) ==
  /\ i \in Running
  /\ LET e == EntryStat(EntryAt(futures[i].path))
     IN (\E j \in 1..Len(e.entries) : IsDirMode(e.entries[j]))
          => Cardinality(Running) < max_workers
  /\ LET out == build_tree_single(EntryStat(EntryAt(futures[i].path)), futures[i].path)
     IN /\ futures' = [futures EXCEPT ![i].state = "done", ![i].out = out]
        /\ warnings' = warnings (+) out.warns
  /\ UNCHANGED <<fs, max_workers, cpu_count, pc, nxt, yielded, children,
                 total_size, total_files, results, printed, args, interrupted,
                 executor, spinner>>

\* a walker that hands its first subdirectory to the pool
FinishUnitDispatching(i) ==
  /\ i \in Running
  /\ LET p == futures[i].path
         e == EntryStat(EntryAt(p))
         out == build_tree_single(e, p)
         sub == {j \in 1..Len(e.entries) : IsDirMode(e.entries[j])}
         fin == [futures EXCEPT ![i].state = "done", ![i].out = out]
     IN /\ futures' = IF e.kind = "dir" /\ sub # {}
                       THEN Append(fin, Future(p \o <<CHOOSE j \in sub : \A k \in sub : j <= k>>))
                       ELSE fin
        /\ warnings' = warnings (+) out.warns
  /\ UNCHANGED <<fs, max_workers, cpu_count, pc, nxt, yielded, children,
                 total_size, total_files, results, printed, args, interrupted,
                 executor, spinner>>

\* the unit _build_tree_single(entry_path, entry_st) runs to its end
FinishUnit(i) ==
  /\ i \in Running
  /\ LET out == build_tree_single(EntryStat(EntryAt(futures[i].path)), futures[i].path)
     IN /\ futures' = [futures EXCEPT ![i].state = "done", ![i].out = out]
        /\ warnings' = warnings (+) out.warns
  /\ UNCHANGED <<fs, max_workers, cpu_count, pc, nxt, yielded, children,
                 total_size, total_files, results, printed, args, interrupted,
                 executor, spinner>>

\* ------------------------------------------------------- helpers / render
\* helpers.format_size: tenths of the value in the chosen unit, and the unit
RECURSIVE Pow1024(_)
Pow1024(u) == IF u = 0 THEN 1 ELSE 1024 * Pow1024(u - 1)

RoundTenths(n, d) ==
  LET q == (10 * n) \div d
      r == (10 * n) % d
  IN IF 2 * r < d THEN q ELSE IF 2 * r > d THEN q + 1 ELSE q + (q % 2)

RECURSIVE format_size_loop(_, _)
format_size_loop(n, u) ==
  IF n < Pow1024(u + 1) \/ u = 4
  THEN [tenths |-> RoundTenths(n, Pow1024(u)), unit |-> u]
  ELSE format_size_loop(n, u + 1)

format_size(num_bytes) == format_size_loop(num_bytes, 0)

\* Node.__iter__: this node, then every child's iteration in dict order
RECURSIVE NodeIter(_), IterAll(_)
NodeIter(n) == <<n>> \o IterAll(n.children)

IterAll(ch) == IF ch = <<>> THEN <<>> ELSE NodeIter(Head(ch)) \o IterAll(Tail(ch))

\* sorted(..., key=size, reverse=reverse): stable in both directions
\* a sort that ignores the direction
RECURSIVE SortedInsertAscending(_, _, _)
SortedInsertAscending(s, x, reverse) ==
  IF s = <<>> THEN <<x>>
  ELSE IF Head(s).size <= x.size
       THEN <<Head(s)>> \o SortedInsertAscending(Tail(s), x, reverse)
       ELSE <<x>> \o s

RECURSIVE SortedInsert(_, _, _)
SortedInsert(s, x, reverse) ==
  IF s = <<>> THEN <<x>>
  ELSE IF (IF reverse THEN Head(s).size >= x.size ELSE Head(s).size <= x.size)
       THEN <<Head(s)>> \o SortedInsert(Tail(s), x, reverse)
       ELSE <<x>> \o s

RECURSIVE SortedBySize(_, _)
SortedBySize(s, reverse) ==
  IF s = <<>> THEN <<>>
  ELSE SortedInsert(SortedBySize(SubSeq(s, 1, Len(s) - 1), reverse), s[Len(s)], reverse)

Line(n) ==
  [file_count |-> n.file_count, type |-> IF n.is_file THEN "F" ELSE "D",
   size |-> format_size(n.size), path |-> n.path]

\* a loop that stops at the first node below the threshold
RECURSIVE PrintLinesUntilSmall(_, _)
PrintLinesUntilSmall(s, threshold) ==
  IF s = <<>> \/ Head(s).size < threshold THEN <<>>
  ELSE <<Line(Head(s))>> \o PrintLinesUntilSmall(Tail(s), threshold)

RECURSIVE PrintLines(_, _)
PrintLines(s, threshold) ==
  IF s = <<>> THEN <<>>
  ELSE (IF Head(s).size >= threshold THEN <<Line(Head(s))>> ELSE <<>>)
         \o PrintLines(Tail(s), threshold)

\* a renderer that prints the iteration as it comes, without sorting it
print_tree_unsorted(node, threshold, reverse) == PrintLines(NodeIter(node), threshold)

print_tree(node, threshold, reverse) ==
  PrintLines(SortedBySize(NodeIter(node), reverse), threshold)

\* ------------------------------------------------------ size_scanner.main
\* build_tree has returned: main prints the tree; args is the parsed command
\* line, which holds the defaults until the one place that reads it
PrintTree ==
  /\ pc = "built"
  /\ \E threshold \in 0..MaxThreshold, reverse \in BOOLEAN :
       /\ args' = [threshold |-> threshold, reverse |-> reverse]
       /\ printed' = print_tree(results, threshold, reverse)
  /\ pc' = "done"
  /\ UNCHANGED <<fs, max_workers, cpu_count, nxt, futures, yielded, children,
                 total_size, total_files, results, warnings, interrupted,
                 executor, spinner>>

\* KeyboardInterrupt is raised in the main thread while build_tree runs:
\* inside the with block it leaves through ThreadPoolExecutor.__exit__; in
\* the join of __exit__ itself (on a return or behind an earlier interrupt),
\* or before the pool exists, it goes straight to the handler of main
Interrupt ==
  /\ pc \in {"main", "scan", "collect", "exit", "unwind"}
  /\ interrupted' = TRUE
  /\ pc' = IF pc \in {"scan", "collect"} THEN "unwind" ELSE "caught"
  /\ UNCHANGED <<fs, max_workers, cpu_count, nxt, futures, yielded, children,
                 total_size, total_files, results, warnings, printed, args,
                 executor, spinner>>

\* the exception leaves the with block: ThreadPoolExecutor.__exit__ waits
Unwind ==
  /\ pc = "unwind"
  /\ AllDone
  /\ executor' = "shutdown"
  /\ pc' = "caught"
  /\ UNCHANGED <<fs, max_workers, cpu_count, nxt, futures, yielded, children,
                 total_size, total_files, results, warnings, printed, args,
                 interrupted, spinner>>

\* a handler that prints what was collected before it returns
CatchInterruptPrints ==
  /\ pc = "caught"
  /\ warnings' = warnings (+) SetToBag({Warn("interrupt", Root)})
  /\ printed' = print_tree(Node(Root, total_size, total_files, FALSE, children), 0, FALSE)
  /\ pc' = "aborted"
  /\ UNCHANGED <<fs, max_workers, cpu_count, nxt, futures, yielded, children,
                 total_size, total_files, results, args, interrupted, executor,
                 spinner>>

\* except KeyboardInterrupt: warn and return
CatchInterrupt ==
  /\ pc = "caught"
  /\ warnings' = warnings (+) SetToBag({Warn("interrupt", Root)})
  /\ pc' = "aborted"
  /\ UNCHANGED <<fs, max_workers, cpu_count, nxt, futures, yielded, children,
                 total_size, total_files, results, printed, args, interrupted,
                 executor, spinner>>

Next ==
  \/ StatRootFails
  \/ RootIsFile
  \/ OpenExecutor
  \/ ScanFails
  \/ ScanStatFails
  \/ ScanSubmit
  \/ ScanFile
  \/ ScanDone
  \/ \E i \in 1..MaxEntries : CollectRaised(i)
  \/ \E i \in 1..MaxEntries : CollectNone(i)
  \/ \E i \in 1..MaxEntries : CollectNode(i)
  \/ CollectDone
  \/ ExecutorExit
  \/ StartUnit
  \/ \E i \in 1..MaxEntries : FinishUnit(i)
  \/ PrintTree
  \/ Interrupt
  \/ Unwind
  \/ CatchInterrupt

Spec == Init /\ [][Next]_vars

\* the same program on the filesystems that hold symbolic links
SpecLinks == InitLinks /\ [][Next]_vars

\* ---------------------------------------------------- core._print_spinner
\* the calls of _print_spinner the walker makes on the entry e: one for
\* every call of _build_tree_single
RECURSIVE SpinnerCalls(_), SpinnerCallsLoop(_, _)
SpinnerCallsLoop(e, i) ==
  IF FailsAfter(e) = i - 1 \/ i > Len(e.entries) THEN 0
  ELSE LET c == EntryStat(e.entries[i])
       IN IF c.kind = "nostat" THEN SpinnerCallsLoop(e, i + 1)
          ELSE IF build_tree_single(c, <<i>>).tag = "exc" THEN SpinnerCalls(c)
          ELSE SpinnerCalls(c) + SpinnerCallsLoop(e, i + 1)

SpinnerCalls(e) ==
  IF e.kind = "crash" \/ ~IsDirMode(e) THEN 1 ELSE 1 + SpinnerCallsLoop(e, 1)

\* the thread t is at a call of _print_spinner: the main thread once, on
\* entering build_tree, a worker for every walker call of its unit
Spins(t) ==
  /\ spinner.at[t] = "out"
  /\ IF t = 0 THEN pc = "main" /\ spinner.done[0] = 0
     ELSE /\ t \in Running
          /\ spinner.done[t] < SpinnerCalls(EntryStat(EntryAt(futures[t].path)))

\* the thread t has made every call of _print_spinner it had to make
Spun(t) ==
  /\ spinner.at[t] = "out"
  /\ IF t = 0 THEN spinner.done[0] = 1
     ELSE /\ t \in Running
          /\ spinner.done[t] = SpinnerCalls(EntryStat(EntryAt(futures[t].path)))

SpinnerOnly ==
  UNCHANGED <<fs, max_workers, cpu_count, pc, nxt, futures, yielded, children,
              total_size, total_files, results, warnings, printed, args,
              interrupted, executor>>

\* a spinner without the lock
SpinAcquireUnlocked(t) ==
  /\ Spins(t)
  /\ spinner' = [spinner EXCEPT !.owner = t, !.at[t] = "locked"]
  /\ SpinnerOnly

\* with _SPINNER_LOCK: the thread t takes the lock when it is free
SpinAcquire(t) ==
  /\ Spins(t)
  /\ spinner.owner = -1
  /\ spinner' = [spinner EXCEPT !.owner = t, !.at[t] = "locked"]
  /\ SpinnerOnly

\* next(_SPINNER): the thread t reads the frame and advances the cycle
SpinNext(t) ==
  /\ spinner.at[t] = "locked"
  /\ spinner' = [spinner EXCEPT !.frame = (spinner.frame + 1) % Frames,
                                !.at[t] = "print"]
  /\ SpinnerOnly

\* print(...), and the end of the with block: the thread t frees the lock
SpinRelease(t) ==
  /\ spinner.at[t] = "print"
  /\ spinner' = [spinner EXCEPT !.owner = -1, !.at[t] = "out",
                                !.shown = <<(spinner.frame + Frames - 1) % Frames>>,
                                !.done[t] = @ + 1]
  /\ SpinnerOnly

\* the program with the steps of _print_spinner: a walker ends, and the main
\* thread goes beyond the first line of build_tree, after its spinner calls
NextSpinner ==
  \/ Spun(0) /\ (StatRootFails \/ RootIsFile \/ OpenExecutor)
  \/ ScanFails \/ ScanStatFails \/ ScanSubmit \/ ScanFile \/ ScanDone
  \/ \E i \in 1..MaxEntries : CollectRaised(i) \/ CollectNone(i) \/ CollectNode(i)
  \/ CollectDone \/ ExecutorExit \/ PrintTree \/ Unwind \/ CatchInterrupt
  \/ StartUnit
  \/ \E i \in 1..MaxEntries : Spun(i) /\ FinishUnit(i)
  \/ spinner.at[0] = "out" /\ Interrupt
  \/ \E t \in Threads : SpinAcquire(t) \/ SpinNext(t) \/ SpinRelease(t)

SpinRoots == PlainRoots(MaxEntries - 1, FALSE)

InitSpinner == fs \in SpinRoots /\ Start

SpecSpinner == InitSpinner /\ [][NextSpinner]_vars

\* the steps of the main thread in build_tree and on its way out of it, the
\* interrupt apart, and the steps of the pool's threads
MainThread ==
  \/ StatRootFails \/ RootIsFile \/ OpenExecutor
  \/ ScanFails \/ ScanStatFails \/ ScanSubmit \/ ScanFile \/ ScanDone
  \/ \E i \in 1..MaxEntries : CollectRaised(i) \/ CollectNone(i) \/ CollectNode(i)
  \/ CollectDone \/ ExecutorExit \/ Unwind \/ CatchInterrupt

WorkerThreads == StartUnit \/ \E i \in 1..MaxEntries : FinishUnit(i)

\* the filesystems of the fair runs: every filesystem with one entry less
\* than the largest, and up to one more subdirectory than the largest pool
\* has workers (as far as there are units), each with a subdirectory of its
\* own
Subdirs(n) == [i \in 1..n |-> Dir("dir", <<Dir("dir", <<>>)>>)]

FairSubdirs == IF MaxWorkers < MaxEntries THEN MaxWorkers + 1 ELSE MaxEntries

FairRoots ==
  PlainRoots(MaxEntries - 1, FALSE) \cup {Dir("dir", Subdirs(n)) : n \in 0..FairSubdirs}

InitFair == fs \in FairRoots /\ Start

\* the caller names the pool size or leaves it to the default, which
\* depends on the number of cores os.cpu_count() reports
InitPool ==
  /\ fs \in FairRoots
  /\ \/ max_workers \in 1..MaxWorkers /\ cpu_count = None
     \/ max_workers = None /\ cpu_count \in {None} \cup 1..MaxCores
  /\ Idle

SpecPool == InitPool /\ [][Next]_vars

\* the operating system schedules every thread that can run
FairSpec == InitFair /\ [][Next]_vars /\ WF_vars(MainThread) /\ WF_vars(WorkerThreads)

\* ------------------------------------------------------ helpers.parse_size
\* Python integers are unbounded and a float keeps 53 significant bits: an
\* integer is held as hi * Limb + lo, a parsed size as mant * 1024^exp
Limb == 2^27

Big(hi, lo) == [hi |-> hi, lo |-> lo]

DigitChars == <<"0", "1", "2", "3", "4", "5", "6", "7", "8", "9">>

IsDigit(c) == \E i \in 1..10 : DigitChars[i] = c

DigitValue(c) == (CHOOSE i \in 1..10 : DigitChars[i] = c) - 1

\* int(text) of a text of decimal digits
RECURSIVE IntOf(_)
IntOf(ds) ==
  IF ds = <<>> THEN Big(0, 0)
  ELSE LET acc == IntOf(SubSeq(ds, 1, Len(ds) - 1))
           l == acc.lo * 10 + DigitValue(ds[Len(ds)])
       IN Big(acc.hi * 10 + l \div Limb, l % Limb)

\* str(n) of a non-negative integer
RECURSIVE StrOf(_)
StrOf(n) ==
  LET l == (n.hi % 10) * Limb + n.lo
      q == Big(n.hi \div 10, l \div 10)
  IN (IF q = Big(0, 0) THEN <<>> ELSE StrOf(q)) \o <<DigitChars[(l % 10) + 1]>>

RECURSIVE BitLen(_)
BitLen(h) == IF h = 0 THEN 0 ELSE 1 + BitLen(h \div 2)

\* float(n): the nearest double, ties to the even mantissa
Float(n) ==
  LET k == IF BitLen(n.hi) > 26 THEN BitLen(n.hi) - 26 ELSE 0
      u == 2^k
      q == n.lo \div u
      r == n.lo % u
      up == 2 * r > u \/ (2 * r = u /\ q % 2 = 1)
      l == (IF up THEN q + 1 ELSE q) * u
  IN Big(n.hi + l \div Limb, l % Limb)

\* text.strip()
RECURSIVE Strip(_)
Strip(t) ==
  IF t = <<>> THEN t
  ELSE IF Head(t) = " " THEN Strip(Tail(t))
  ELSE IF t[Len(t)] = " " THEN Strip(SubSeq(t, 1, Len(t) - 1))
  ELSE t

\* text.upper()
UpperChar(c) ==
  CASE c = "k" -> "K" [] c = "m" -> "M" [] c = "g" -> "G" [] c = "t" -> "T"
    [] OTHER -> c

Upper(t) == [i \in 1..Len(t) |-> UpperChar(t[i])]

\* the multipliers of parse_size, as powers of 1024
multipliers == [c \in {"K", "M", "G", "T"} |->
                  CASE c = "K" -> 1 [] c = "M" -> 2 [] c = "G" -> 3 [] c = "T" -> 4]

IsNumeral(ds) == ds # <<>> /\ \A i \in 1..Len(ds) : IsDigit(ds[i])

Size(mant, exp) == [mant |-> mant, exp |-> exp]

\* float() or int() rejects the text
ValueError == [raised |-> "ValueError"]

parse_size(input) ==
  LET text == Upper(Strip(input))
      num == SubSeq(text, 1, Len(text) - 1)
  IN IF text = <<>> THEN Size(Big(0, 0), 0)
     ELSE IF text[Len(text)] \in DOMAIN multipliers
     THEN IF IsNumeral(num)
          THEN Size(Float(IntOf(num)), multipliers[text[Len(text)]])
          ELSE ValueError
     ELSE IF IsNumeral(text) THEN Size(IntOf(text), 0) ELSE ValueError

\* the command lines given to parse_size
RECURSIVE NumeralsOf(_)
NumeralsOf(n) ==
  IF n = 0 THEN {<<>>}
  ELSE {<<c>> \o ds : c \in {"0", "1", "7"}, ds \in NumeralsOf(n - 1)}

SmallNumerals == UNION {NumeralsOf(n) : n \in 1..MaxNumeralLen}

LargeNumerals == {StrOf(Big(2^26 - 1 + (Limb - 1 + k) \div Limb, (Limb - 1 + k) % Limb)) :
                    k \in 0..MaxBeyond}

Suffixes == {<<>>} \cup {<<c>> : c \in {"K", "M", "G", "T", "k", "m", "g", "t"}}

Texts ==
  {<<>>, <<" ">>, <<"K">>}
    \cup {pad \o ds \o sfx \o pad :
            ds \in SmallNumerals \cup LargeNumerals, sfx \in Suffixes,
            pad \in {<<>>, <<" ">>}}

\* _parse_args: argparse converts the threshold text with parse_size
ParseArgs ==
  /\ pc = "parse"
  /\ args' = [args EXCEPT !.threshold = parse_size(args.text)]
  /\ pc' = IF parse_size(args.text) = ValueError THEN "usage" ELSE "parsed"
  /\ UNCHANGED <<fs, max_workers, cpu_count, nxt, futures, yielded, children,
                 total_size, total_files, results, warnings, printed,
                 interrupted, executor, spinner>>

InitParse ==
  /\ fs = File(1)
  /\ max_workers = 1
  /\ cpu_count = 0
  /\ pc = "parse"
  /\ nxt = 1
  /\ futures = <<>>
  /\ yielded = {}
  /\ children = <<>>
  /\ total_size = 0
  /\ total_files = 0
  /\ results = NoNode
  /\ warnings = EmptyBag
  /\ printed = <<>>
  /\ args \in {[text |-> t, threshold |-> Size(Big(0, 0), 0), reverse |-> FALSE] : t \in Texts}
  /\ interrupted = FALSE
  /\ executor = "none"
  /\ spinner = SpinnerAtRest

SpecParse == InitParse /\ [][ParseArgs]_vars

\* ====================================================== properties
\* build_tree has returned to its caller
Returns == pc \in {"built", "done"}

SeqToSet(s) == {s[i] : i \in 1..Len(s)}

\* the nodes of a tree, and their paths
TreeNodes(n) == SeqToSet(NodeIter(n))

TreePaths(n) == {x.path : x \in TreeNodes(n)}

RECURSIVE SumSize(_), SumCount(_)
SumSize(ch) == IF ch = <<>> THEN 0 ELSE Head(ch).size + SumSize(Tail(ch))

SumCount(ch) == IF ch = <<>> THEN 0 ELSE Head(ch).file_count + SumCount(Tail(ch))

NodeInvariant(n) ==
  IF n.is_file
  THEN n.children = <<>> /\ n.file_count = 1
  ELSE n.size = SumSize(n.children) /\ n.file_count = SumCount(n.children)

\* C1: in every tree build_tree returns, every directory node has the sum of
\* its children's size and file_count, and every file node is a leaf with
\* file_count 1, at every depth
C1_Aggregation == Returns => \A n \in TreeNodes(results) : NodeInvariant(n)

\* a returned tree in which a directory lies inside a directory and holds a child
C1_Witness ==
  /\ pc = "built"
  /\ results.size > 0
  /\ \E c \in SeqToSet(results.children) :
       \E g \in SeqToSet(c.children) : ~g.is_file /\ g.children # <<>>

\* what a scan returns when the units are run and folded one after the other
\* in submission order
RECURSIVE SerialLoop(_, _, _, _)
SerialLoop(i, ch, ts, tf) ==
  IF FailsAfter(RootStat) = i - 1 THEN Node(Root, 0, 0, FALSE, <<>>)
  ELSE IF i > Len(RootStat.entries) THEN Node(Root, ts, tf, FALSE, ch)
  ELSE LET e == RootStat.entries[i]
           r == build_tree_single(e, <<i>>)
       IN IF e.kind = "nostat" \/ r.tag # "node" THEN SerialLoop(i + 1, ch, ts, tf)
          ELSE SerialLoop(i + 1, ch \o <<r.node>>, ts + r.node.size,
                          tf + r.node.file_count)

SerialScan ==
  IF RootStat.kind = "nostat" THEN Node(Root, 0, 0, FALSE, <<>>)
  ELSE IF RootStat.kind = "file" THEN Node(Root, RootStat.size, 1, TRUE, <<>>)
  ELSE SerialLoop(1, <<>>, 0, 0)

\* C2: whatever the pool size and the order in which units complete and are
\* collected, build_tree returns the size, file_count and set of children of
\* the one-at-a-time scan of the same filesystem
C2_PoolSizeIndependent ==
  Returns =>
    /\ results.size = SerialScan.size
    /\ results.file_count = SerialScan.file_count
    /\ SeqToSet(results.children) = SeqToSet(SerialScan.children)
    /\ Len(results.children) = Len(SerialScan.children)

\* more subdirectories than workers, folded against the submission order
C2_Witness ==
  /\ pc = "built"
  /\ Len(futures) > max_workers
  /\ results.size > 0
  /\ \E i, j \in 1..Len(results.children) :
       /\ i < j
       /\ ~results.children[i].is_file
       /\ ~results.children[j].is_file
       /\ results.children[i].path[1] > results.children[j].path[1]

\* C7: a root that is not a directory comes back as a file node of the
\* root's stat size, and no pool is created and no unit dispatched for it
C7_RootFile ==
  RootStat.kind = "file" =>
    /\ executor = "none"
    /\ futures = <<>>
    /\ Returns => results = [path |-> Root, size |-> RootStat.size, file_count |-> 1,
                             is_file |-> TRUE, children |-> <<>>]

\* build_tree has returned for a root file of the largest size
C7_Witness == pc = "built" /\ RootStat.kind = "file" /\ RootStat.size = MaxFileSize

\* ------------------------------------------------ paths of the filesystem
RECURSIVE PathsOf(_, _)
PathsOf(e, p) ==
  {p} \cup UNION {PathsOf(e.entries[i], p \o <<i>>) : i \in 1..Len(e.entries)}

FsPaths == PathsOf(RootStat, Root)

Parent(q) == SubSeq(q, 1, Len(q) - 1)

IsPrefix(q, r) == Len(q) <= Len(r) /\ SubSeq(r, 1, Len(q)) = q

\* the walker raises an exception that is not an OSError somewhere in the
\* part of e it walks
RECURSIVE Crashes(_)
Crashes(e) ==
  \/ e.kind = "crash"
  \/ e.kind = "dir" /\ \E j \in 1..Len(e.entries) : Crashes(e.entries[j])
  \/ e.kind = "midscan" /\ Crashes(e.entries[1])

\* the listing of the directory e raises OSError when a walker lists it
Unreadable(e) == e.kind \in {"noscan", "midscan"} /\ ~Crashes(e)

\* the listing of the scan root raises OSError
UnreadableRoot == RootStat.kind \in {"noscan", "midscan"}

\* once build_tree has returned, q was certainly reached by the scan: it is
\* the root, a root entry listed before any failure of the root's listing,
\* or an entry of a directory that is in the returned tree
Met(q) ==
  \/ q = Root
  \/ /\ Len(q) = 1
     /\ IsDirMode(RootStat)
     /\ FailsAfter(RootStat) = -1 \/ q[1] <= FailsAfter(RootStat)
  \/ /\ Len(q) > 1
     /\ IsDirMode(EntryAt(Parent(q)))
     /\ Parent(q) \in TreePaths(results)

ChildPaths(n) == {c.path : c \in SeqToSet(n.children)}

EmptyDirNode(n) == ~n.is_file /\ n.size = 0 /\ n.file_count = 0 /\ n.children = <<>>

\* C3: a future is added only by the main thread's scan of the root, one at
\* a time and for an immediate subdirectory of the root; a step of a worker
\* unit adds no future and no unit ever waits on one
C3_NoNestedDispatch ==
  [][/\ Len(futures') >= Len(futures)
     /\ Len(futures') > Len(futures) =>
          /\ pc = "scan" /\ pc' = "scan"
          /\ nxt <= Len(RootStat.entries) /\ nxt' = nxt + 1
          /\ IsDirMode(RootStat.entries[nxt])
          /\ futures' = Append(futures, Future(<<nxt>>))
     /\ \A i \in 1..Len(futures') :
          /\ Len(futures'[i].path) = 1
          /\ futures'[i].state \in {"queued", "running", "done"}]_vars

\* a unit has finished the walk of a directory that holds a subdirectory
C3_Witness ==
  \E i \in 1..Len(futures) :
    /\ futures[i].state = "done"
    /\ futures[i].out.tag = "node"
    /\ \E c \in SeqToSet(futures[i].out.node.children) : ~c.is_file

\* ------------------------------------------------------------------- C4
UnreadableTop == {i \in 1..Len(RootStat.entries) : Unreadable(RootStat.entries[i])}

OneUnreadableSubdir == RootStat.kind = "dir" /\ Cardinality(UnreadableTop) = 1

\* files and directories that are read without any failure
RECURSIVE Clean(_)
Clean(e) ==
  \/ e.kind \in {"file", "symlink"}
  \/ e.kind = "dir" /\ \A i \in 1..Len(e.entries) : Clean(e.entries[i])

OthersClean == \A j \in 1..Len(RootStat.entries) : j \in UnreadableTop \/ Clean(RootStat.entries[j])

\* the bytes and the number of the files below e that lie in readable directories
RECURSIVE PlainSize(_), PlainCount(_), PlainSizes(_), PlainCounts(_)
PlainSize(e) ==
  IF e.kind \in {"file", "symlink"} THEN e.size
  ELSE IF e.kind = "dir" THEN PlainSizes(e.entries) ELSE 0

PlainSizes(es) == IF es = <<>> THEN 0 ELSE PlainSize(Head(es)) + PlainSizes(Tail(es))

PlainCount(e) ==
  IF e.kind \in {"file", "symlink"} THEN 1
  ELSE IF e.kind = "dir" THEN PlainCounts(e.entries) ELSE 0

PlainCounts(es) == IF es = <<>> THEN 0 ELSE PlainCount(Head(es)) + PlainCounts(Tail(es))

WarningsAt(p) ==
  CopiesIn(Warn("entry", p), warnings) + CopiesIn(Warn("absent", p), warnings)
    + CopiesIn(Warn("root", p), warnings)

ReadableTotals ==
  OthersClean => /\ results.size = PlainSize(RootStat)
                 /\ results.file_count = PlainCount(RootStat)

\* C4 as claimed: with a readable root and exactly one immediate
\* subdirectory that cannot be enumerated, the returned root has the totals
\* of the readable entries and exactly one warning is emitted for the
\* unreadable subdirectory
C4_OneWarning ==
  (Returns /\ OneUnreadableSubdir) =>
    \A i \in UnreadableTop :
      /\ ~results.is_file
      /\ ReadableTotals
      /\ WarningsAt(<<i>>) = 1

\* C4 as amended: with a readable root and exactly one immediate
\* subdirectory that cannot be enumerated, the returned root has the totals
\* of the readable entries, the unreadable subdirectory is not among its
\* children and no warning is emitted for it
C4_Silent ==
  (Returns /\ OneUnreadableSubdir) =>
    \A i \in UnreadableTop :
      /\ ~results.is_file
      /\ ReadableTotals
      /\ <<i>> \notin ChildPaths(results)
      /\ WarningsAt(<<i>>) = 0
      /\ OthersClean =>
           \A w \in BagToSet(warnings) : w.msg = "entry" /\ IsPrefix(<<i>>, w.path)

\* a returned root with one unreadable subdirectory next to a readable one
\* that holds a file
C4_Witness ==
  /\ pc = "built"
  /\ OneUnreadableSubdir
  /\ OthersClean
  /\ results.size > 0
  /\ \E c \in SeqToSet(results.children) : ~c.is_file

\* ------------------------------------------------------------------- C5
UnreadableMet ==
  {q \in FsPaths : Met(q) /\ IF q = Root THEN UnreadableRoot ELSE Unreadable(EntryAt(q))}

\* the unreadable directories that are the root or an entry of a directory
\* whose own listing completed and which is in the returned tree
UnreadableListed ==
  {q \in UnreadableMet : q = Root \/ EntryAt(Parent(q)).kind = "dir"}

\* C5 as claimed: every directory met by the scan that cannot be
\* enumerated, the root or below it, is in the returned tree as an empty
\* directory node with size 0 and file_count 0
C5_EmptyNodeEverywhere ==
  Returns =>
    \A q \in UnreadableListed :
      \E n \in TreeNodes(results) : n.path = q /\ EmptyDirNode(n)

\* C5 as amended: a root that cannot be enumerated is returned as an empty
\* directory node with size 0 and file_count 0; a directory below the root
\* that cannot be enumerated is not in the returned tree at all
C5_EmptyRootAbsentBelow ==
  Returns =>
    \A q \in UnreadableMet :
      IF q = Root
      THEN results.path = Root /\ EmptyDirNode(results)
      ELSE \A n \in TreeNodes(results) : ~IsPrefix(q, n.path)

\* a returned tree whose scan met an unreadable directory two levels down
C5_Witness ==
  /\ pc = "built"
  /\ \E q \in UnreadableMet : Len(q) = 2

\* ------------------------------------------------------------------- C6
RaisedUnits == {i \in 1..Len(futures) : futures[i].out.tag = "exc"}

WorkerWarnings == CopiesIn(Warn("worker", Root), warnings)

UnitsFolded ==
  \A i \in 1..Len(futures) :
    /\ futures[i].state = "done"
    /\ futures[i].out.tag = "exc" => futures[i].path \notin ChildPaths(results)
    /\ futures[i].out.tag = "node" => futures[i].out.node \in SeqToSet(results.children)

\* C6 as claimed: when a unit ends with an unexpected exception build_tree
\* still returns a root node, the failing subdirectory is left out, one
\* warning is emitted for it, and every other unit has run to completion and
\* is folded into the root
C6_WorkerErrorContained ==
  /\ pc # "crashed"
  /\ (Returns /\ RaisedUnits # {}) =>
       /\ ~results.is_file
       /\ UnitsFolded
       /\ WorkerWarnings = Cardinality(RaisedUnits)

\* C6 as amended: the same, provided the listing of the root itself does
\* not fail; when it fails after units were dispatched build_tree returns an
\* empty root once every unit has run to completion, folds no result and
\* emits no warning for the failed unit
C6_WorkerErrorContainedUnlessRootFails ==
  /\ pc # "crashed"
  /\ (Returns /\ RaisedUnits # {}) =>
       IF RootStat.kind = "dir"
       THEN /\ ~results.is_file
            /\ UnitsFolded
            /\ WorkerWarnings = Cardinality(RaisedUnits)
       ELSE /\ EmptyDirNode(results)
            /\ AllDone
            /\ WorkerWarnings = 0

\* a returned root: one unit raised, another was folded with files in it
C6_Witness ==
  /\ pc = "built"
  /\ RootStat.kind = "dir"
  /\ RaisedUnits # {}
  /\ \E c \in SeqToSet(results.children) : ~c.is_file /\ c.size > 0

\* ------------------------------------------------------------------- C8
NoStatMet == {q \in FsPaths : q # Root /\ EntryAt(q).kind = "nostat" /\ Met(q)}

\* the file entries listed next to q in a directory whose listing completes
FileSiblings(q) ==
  LET d == EntryAt(Parent(q))
  IN IF d.kind # "dir" THEN {}
     ELSE {Parent(q) \o <<j>> : j \in {k \in 1..Len(d.entries) : d.entries[k].kind = "file"}}

\* C8: an entry whose stat fails, at the root level or below, gets exactly
\* one warning, is not in the returned tree, is never dispatched or walked
\* into, leaves its ancestors' totals the sum of their children, and its
\* sibling files are still scanned
C8_StatFailureSkipped ==
  /\ \A w \in BagToSet(warnings) :
       w.msg = "entry" => EntryAt(w.path).kind = "nostat" /\ CopiesIn(w, warnings) = 1
  /\ \A i \in 1..Len(futures) : EntryAt(futures[i].path).kind # "nostat"
  /\ Returns =>
       \A q \in NoStatMet :
         /\ CopiesIn(Warn("entry", q), warnings) = 1
         /\ \A n \in TreeNodes(results) : ~IsPrefix(q, n.path)
         /\ \A w \in BagToSet(warnings) : w.path # q => ~IsPrefix(q, w.path)
         /\ \A i \in 1..Len(futures) : ~IsPrefix(q, futures[i].path)
         /\ \A n \in TreeNodes(results) : IsPrefix(n.path, q) => NodeInvariant(n)
         /\ Parent(q) \in TreePaths(results) /\ EntryAt(Parent(q)).kind = "dir"
              => FileSiblings(q) \subseteq TreePaths(results)

\* a returned tree: a stat failed two levels down and the file listed after
\* the failing entry is in the tree
C8_Witness ==
  /\ pc = "built"
  /\ \E q \in NoStatMet :
       /\ Len(q) = 2
       /\ \E r \in FileSiblings(q) : r[2] > q[2] /\ r \in TreePaths(results)

\* ------------------------------------------------------------------- C9
\* C9: once the interrupt has reached the main thread no unit is submitted
\* and no queued unit starts to run
C9_NoDispatchAfterInterrupt ==
  [][interrupted =>
       /\ Len(futures') = Len(futures)
       /\ \A i \in 1..Len(futures) :
            futures[i].state = "queued" => futures'[i].state = "queued"]_vars

\* ------------------------------------------------------------------ C10
\* C10: after an interrupt during the scan main goes through its handler
\* only, prints no node line, and has emitted exactly one interrupt warning
\* when it returns
C10_InterruptNoPartialTree ==
  interrupted =>
    /\ printed = <<>>
    /\ pc \in {"unwind", "caught", "aborted"}
    /\ CopiesIn(Warn("interrupt", Root), warnings) = (IF pc = "aborted" THEN 1 ELSE 0)

\* main has returned from its handler after an interrupt that arrived when
\* part of the tree was already collected
C10_Witness ==
  /\ pc = "aborted"
  /\ interrupted
  /\ children # <<>>
  /\ total_size > 0

\* ------------------------------------------------------------------ C11
\* the symbolic links among the directory entries the scan has reached
LinksMet == {q \in FsPaths : q # Root /\ EntryAt(q).kind = "symlink" /\ Met(q)}

\* the links whose directory was listed to its end and is in the returned tree
LinksListed ==
  {q \in LinksMet : EntryAt(Parent(q)).kind = "dir" /\ Parent(q) \in TreePaths(results)}

\* q is in the returned tree as a leaf sized from its own lstat
LeafFromLstat(q) ==
  \E n \in TreeNodes(results) :
    /\ n.path = q
    /\ n.is_file /\ n.file_count = 1 /\ n.children = <<>>
    /\ n.size = EntryAt(q).size

\* nothing below q was dispatched, walked or put in the tree
NotEnumerated(q) ==
  /\ \A n \in TreeNodes(results) : IsPrefix(q, n.path) => n.path = q
  /\ \A i \in 1..Len(futures) : ~IsPrefix(q, futures[i].path)
  /\ \A w \in BagToSet(warnings) : IsPrefix(q, w.path) => w.path = q

\* C11 as claimed: no symbolic link is followed: a scan root that is a link
\* and every link among the entries at any depth becomes a leaf node sized
\* from its own lstat, and what it points to is never enumerated
C11_NeverFollowed ==
  Returns =>
    /\ fs.kind = "symlink" =>
         /\ results = [path |-> Root, size |-> fs.size, file_count |-> 1,
                       is_file |-> TRUE, children |-> <<>>]
         /\ futures = <<>>
    /\ \A q \in LinksListed : LeafFromLstat(q) /\ NotEnumerated(q)

\* C11 as amended: a link among the directory entries, at any depth, is
\* never followed: it is a leaf sized from its own lstat and what it points
\* to is never enumerated; a scan root that is a link is followed: a link to
\* a file gives a file node of the file's size, a link to a directory gives
\* the directory node of the listing of that directory, and a dangling link
\* gives the empty node of a failed stat
C11_EntriesNotFollowedRootFollowed ==
  /\ \A i \in 1..Len(futures) : EntryAt(futures[i].path).kind # "symlink"
  /\ Returns =>
       /\ \A q \in LinksMet : NotEnumerated(q)
       /\ \A q \in LinksListed : LeafFromLstat(q)
       /\ fs.kind = "symlink" =>
            /\ results.is_file = (RootStat.kind = "file")
            /\ RootStat.kind = "file" => results.size = RootStat.size
            /\ RootStat.kind = "nostat" =>
                 EmptyDirNode(results) /\ CopiesIn(Warn("root", Root), warnings) = 1
            /\ RootStat.kind = "dir" /\ Clean(RootStat) =>
                 /\ results.size = PlainSize(RootStat)
                 /\ results.file_count = PlainCount(RootStat)
                 /\ Len(results.children) = Len(RootStat.entries)

\* a returned tree with a link two levels down that points to a directory
C11_Witness ==
  /\ pc = "built"
  /\ \E q \in LinksListed :
       /\ Len(q) = 2
       /\ EntryAt(q).entries # <<>>
       /\ IsDirMode(Resolved(EntryAt(q)))
       /\ LeafFromLstat(q)

\* ------------------------------------------------------------------ C12
\* the node n has a line in the output
Emitted(n) == \E i \in 1..Len(printed) : printed[i] = Line(n)

\* the nodes that are children of the node n
ChildNodes(n) == SeqToSet(n.children)

\* C12: _print_tree emits a node if and only if its own size is at least the
\* threshold, whatever happens to its parent, its children and its siblings,
\* and it emits nothing else
C12_EmittedIffMeetsThreshold ==
  pc = "done" =>
    /\ \A n \in TreeNodes(results) : Emitted(n) <=> n.size >= args.threshold
    /\ \A i \in 1..Len(printed) : \E n \in TreeNodes(results) : printed[i] = Line(n)
    /\ \A i, j \in 1..Len(printed) : printed[i] = printed[j] => i = j

\* a directory is shown, one of its children is hidden and another is shown
C12_Witness ==
  /\ pc = "done"
  /\ \E p \in TreeNodes(results) : \E c, d \in ChildNodes(p) :
       /\ c.size < args.threshold /\ d.size >= args.threshold
       /\ Emitted(p) /\ Emitted(d) /\ ~Emitted(c)

\* ------------------------------------------------------------------ C13
\* the place of the line of node n in the output out
Pos(out, n) == CHOOSE i \in 1..Len(out) : out[i] = Line(n)

\* the same tree rendered with the same threshold in the other direction
OtherDirection == print_tree(results, args.threshold, ~args.reverse)

\* the pairs of distinct emitted nodes that are children of one directory
EmittedSiblings ==
  {ab \in TreeNodes(results) \X TreeNodes(results) :
     /\ ab[1] # ab[2]
     /\ Emitted(ab[1]) /\ Emitted(ab[2])
     /\ \E p \in TreeNodes(results) : {ab[1], ab[2]} \subseteq ChildNodes(p)}

\* C13 as claimed: both directions emit the same nodes, and the order of any
\* two siblings in one direction is the reverse of their order in the other,
\* siblings of equal size included
C13_ExactReverse ==
  pc = "done" =>
    /\ SeqToSet(OtherDirection) = SeqToSet(printed)
    /\ \A ab \in EmittedSiblings :
         Pos(printed, ab[1]) < Pos(printed, ab[2])
           <=> Pos(OtherDirection, ab[2]) < Pos(OtherDirection, ab[1])

\* C13 as amended: both directions emit the same nodes; two siblings of
\* different sizes appear in reversed order, two siblings of equal size
\* appear in the same order in both directions
C13_ReverseExceptTies ==
  pc = "done" =>
    /\ SeqToSet(OtherDirection) = SeqToSet(printed)
    /\ \A ab \in EmittedSiblings :
         IF ab[1].size # ab[2].size
         THEN Pos(printed, ab[1]) < Pos(printed, ab[2])
                <=> Pos(OtherDirection, ab[2]) < Pos(OtherDirection, ab[1])
         ELSE Pos(printed, ab[1]) < Pos(printed, ab[2])
                <=> Pos(OtherDirection, ab[1]) < Pos(OtherDirection, ab[2])

\* a rendered directory with two children of one size and one of another
C13_Witness ==
  /\ pc = "done"
  /\ \E ab \in EmittedSiblings : ab[1].size = ab[2].size
  /\ \E ab \in EmittedSiblings : ab[1].size # ab[2].size

\* ------------------------------------------------------------------ C14
\* the digits of a text, and the power of 1024 its letter stands for
DigitsOf(t) == SelectSeq(t, IsDigit)

UnitOf(t) ==
  IF \E i \in 1..Len(t) : t[i] \in {"K", "k"} THEN 1
  ELSE IF \E i \in 1..Len(t) : t[i] \in {"M", "m"} THEN 2
  ELSE IF \E i \in 1..Len(t) : t[i] \in {"G", "g"} THEN 3
  ELSE IF \E i \in 1..Len(t) : t[i] \in {"T", "t"} THEN 4
  ELSE 0

\* C14: parse_size maps the decimal integer n to n and n followed by K, M,
\* G or T, in either letter case, to n * 1024^1, n * 1024^2, n * 1024^3 or
\* n * 1024^4
C14_ParseSize ==
  pc # "parse" /\ DigitsOf(args.text) # <<>> =>
    /\ pc = "parsed"
    /\ args.threshold = Size(IntOf(DigitsOf(args.text)), UnitOf(args.text))

\* ------------------------------------------------------------------ C15
\* build_tree has handed control back: by a return or by the interrupt
BuildTreeLeft == pc \in {"built", "done", "caught", "aborted"}

\* C15: under fair scheduling of the threads build_tree eventually returns,
\* whatever the pool size and the number of subdirectories: while units are
\* queued or running some worker can always take a step, and the main thread
\* does not wait for ever at the join
C15_EventuallyReturns == <>BuildTreeLeft

\* build_tree has returned after the pool held more directories than
\* workers, one of them with a subdirectory of its own
C15_Witness ==
  /\ pc = "built"
  /\ Len(futures) > max_workers
  /\ \E i \in 1..Len(futures) :
       /\ futures[i].out.tag = "node"
       /\ \E c \in SeqToSet(futures[i].out.node.children) : ~c.is_file

\* ------------------------------------------------------------------ C16
\* the emitted nodes of the returned tree
EmittedNodes == {n \in TreeNodes(results) : Emitted(n)}

\* d is below n in the tree
Descendant(d, n) == d # n /\ d \in TreeNodes(n)

\* a and b are children of one directory
Siblings(a, b) ==
  a # b /\ \E p \in TreeNodes(results) : {a, b} \subseteq ChildNodes(p)

\* a comes before b in the depth-first order of the tree
DfsBefore(a, b) ==
  \/ Descendant(b, a)
  \/ \E p \in TreeNodes(results) : \E i, j \in 1..Len(p.children) :
       i < j /\ a \in TreeNodes(p.children[i]) /\ b \in TreeNodes(p.children[j])

\* a may stand before b in an output sorted in the direction of args
InDirection(a, b) == IF args.reverse THEN a.size >= b.size ELSE a.size <= b.size

\* C16 as claimed: the output is a depth-first traversal: the emitted
\* descendants of a node follow it and come before its next sibling, and the
\* siblings of every level are ordered by size in the requested direction
C16_DepthFirstSortedLevels ==
  pc = "done" =>
    \A n \in EmittedNodes :
      /\ \A d \in EmittedNodes : Descendant(d, n) => Pos(printed, n) < Pos(printed, d)
      /\ \A d, s \in EmittedNodes :
           Descendant(d, n) /\ Siblings(n, s) /\ Pos(printed, n) < Pos(printed, s)
             => Pos(printed, d) < Pos(printed, s)
      /\ \A s \in EmittedNodes :
           Siblings(n, s) /\ Pos(printed, n) < Pos(printed, s) => InDirection(n, s)

\* C16 as amended: the output is the depth-first sequence of the tree's
\* nodes sorted as a whole by size in the requested direction: any two
\* emitted nodes, siblings or not, are ordered by size, and nodes of equal
\* size keep their depth-first order
C16_SortedAsAWhole ==
  pc = "done" =>
    \A a, b \in EmittedNodes :
      Pos(printed, a) < Pos(printed, b) =>
        /\ InDirection(a, b)
        /\ a.size = b.size => DfsBefore(a, b)

\* an ascending output in which a file stands before the directory it is in,
\* and after it a node of the size of that directory
C16_Witness ==
  /\ pc = "done"
  /\ ~args.reverse
  /\ \E n, d, e \in EmittedNodes :
       /\ Descendant(d, n) /\ Pos(printed, d) < Pos(printed, n)
       /\ e.size = n.size /\ Pos(printed, n) < Pos(printed, e)

\* ------------------------------------------------------------------ C17
\* twice the number of cores, 4 cores when the number is unknown, 32 at most
ExpectedDefault ==
  IF cpu_count = None THEN 8 ELSE IF cpu_count >= 16 THEN 32 ELSE 2 * cpu_count

\* C17: at most max_workers units run at the same time; when the caller
\* gives no max_workers the pool size is min(32, 2 * cores), with 4 cores
\* assumed when their number is unknown, and it is positive
C17_BoundedConcurrency ==
  /\ [](executor # "none" => max_workers > 0 /\ Cardinality(Running) <= max_workers)
  /\ [][executor = "none" /\ executor' # "none" =>
          max_workers' = IF max_workers = None THEN ExpectedDefault ELSE max_workers]_vars

\* a pool of the default size of one core with every worker busy and a unit
\* waiting in the queue
C17_Witness ==
  /\ executor = "open"
  /\ cpu_count = 1
  /\ Cardinality(Running) = max_workers
  /\ Queued # {}

\* ------------------------------------------------------------------ C18
\* the threads inside the advance-and-print sequence of _print_spinner
InSpinner == {t \in Threads : spinner.at[t] # "out"}

\* C18: no two threads are inside the advance-and-print sequence of
\* _print_spinner at the same time, and however the spinner calls fall
\* between the other steps, build_tree returns the tree of the scan that has
\* no spinner, and a step of the spinner changes nothing but the spinner
C18_SpinnerExclusive ==
  /\ [](Cardinality(InSpinner) <= 1)
  /\ [](Returns =>
          /\ results.size = SerialScan.size
          /\ results.file_count = SerialScan.file_count
          /\ SeqToSet(results.children) = SeqToSet(SerialScan.children))
  /\ [][spinner' # spinner => SpinnerOnly]_vars

\* a worker is inside _print_spinner while another worker is at a call of it
C18_Witness ==
  \E t, u \in Threads :
    /\ t # u
    /\ spinner.at[t] = "print"
    /\ Spins(u)

\* ------------------------------------------------------------------ C19
\* C19 as claimed: once the pool exists, build_tree hands control back to
\* its caller, by a return or by an exception, only when no unit it
\* submitted is still queued or running
C19_JoinedWhenCallerResumes ==
  BuildTreeLeft /\ executor # "none" => AllDone

\* C19 as amended: build_tree returns, from the end of the function or from
\* the failed listing of the root, only when every unit it submitted has
\* finished, and an exception raised inside the with block leaves it only
\* then; a KeyboardInterrupt raised while the main thread waits in the join
\* of the pool's shutdown leaves build_tree at once, whatever the units do
C19_JoinedUnlessInterruptedInJoin ==
  /\ [](pc \in {"built", "done"} /\ executor # "none" => AllDone)
  /\ [](BuildTreeLeft /\ executor = "shutdown" => AllDone)
  /\ [][~BuildTreeLeft /\ BuildTreeLeft' /\ executor' = "open" =>
          pc \in {"exit", "unwind"} /\ interrupted']_vars

\* build_tree has returned from the failed listing of the root after it
\* waited for a unit it had dispatched
C19_Witness ==
  /\ pc = "built"
  /\ RootStat.kind = "midscan"
  /\ Len(futures) > 0
  /\ AllDone

\* ------------------------------------------------------------------ C20
\* the directories met by the scan whose listing raises OSError after their
\* first entry was processed
PartlyListed ==
  {q \in FsPaths :
     /\ Met(q)
     /\ EntryAt(q).kind = "midscan"
     /\ q = Root \/ ~Crashes(EntryAt(q))}

\* C20: a directory whose listing fails after some entries were processed
\* keeps none of them: below the root it is absent from the tree with all
\* that is below it, and its parent holds the sum of its other children
\* only; the root comes back with size 0, file_count 0 and no children,
\* whatever was dispatched and counted before
C20_AllOrNothing ==
  Returns =>
    \A q \in PartlyListed :
      IF q = Root
      THEN results.path = Root /\ EmptyDirNode(results)
      ELSE /\ \A n \in TreeNodes(results) : ~IsPrefix(q, n.path)
           /\ \A n \in TreeNodes(results) :
                n.path = Parent(q) =>
                  /\ n.size = SumSize(n.children)
                  /\ n.file_count = SumCount(n.children)

\* the root came back empty although a unit was dispatched for its first
\* entry and returned a node with files in it
C20_Witness ==
  /\ pc = "built"
  /\ RootStat.kind = "midscan"
  /\ EmptyDirNode(results)
  /\ Len(futures) = 1
  /\ futures[1].out.tag = "node"
  /\ futures[1].out.node.file_count > 0
====